---------------------------- MODULE Spec2Model ----------------------------
(***************************************************************************)
(* FlashSettings<T, FlashPartitionSize> (src/src/FlashSettings.h): a       *)
(* settings record with a (m_size, m_checksum) header, loaded from EEPROM  *)
(* by begin() and written back by update() when its Fletcher-16 checksum   *)
(* changed.                                                                *)
(*                                                                         *)
(* The record is modelled as its byte image (a sequence of bytes, 1-based: *)
(* image[i] is the byte at offset i-1), little-endian as on the ESP8266 /  *)
(* ESP32 targets the header admits.  The EEPROM is the byte array the      *)
(* driver calls read and write.                                            *)
(***************************************************************************)
EXTENDS Integers, Sequences, FiniteSets

(***************************************************************************)
(* Program constants.                                                      *)
(***************************************************************************)
\* sizeof(FlashDataBase): two uint16_t fields.
HeaderSize == 4
\* The value the constructor stores in m_checksum.
Sentinel == 43690
\* The modulus of both Fletcher sums.
FletcherMod == 255

(***************************************************************************)
(* Bounds of the model.                                                    *)
(***************************************************************************)
\* The flash partition size (template parameter, 512 by default): kept small.
FlashPartitionSize == 6

\* The longest byte sequence handed to fletcher16 on its own.
MaxLen == 3

\* The bytes of those sequences.
FletcherBytes == {0, 1, 2, 127, 128, 254, 255}

\* The values a caller assigns to the payload byte at 1-based index i.  0 and
\* 255 are the two bytes that are congruent modulo 255; <<225, 194>> is the
\* payload of the six-byte record whose checksum is the construction sentinel.
ByteVals(i) == {0, 255, IF i % 2 = 1 THEN 225 ELSE 194}

CallerBytes == UNION {ByteVals(i) : i \in 1 .. FlashPartitionSize}

\* The record sizes (sizeof(T)) of the firmware builds that share the
\* partition: from a record with no payload to one that fills the partition.
SizesOfT == HeaderSize .. FlashPartitionSize

(***************************************************************************)
(* Bytes and 16-bit words.                                                 *)
(***************************************************************************)
Lo(w) == w % 256
Hi(w) == (w \div 256) % 256

\* The uint16_t at 1-based index i of a byte image (pwTemp[0] is Word(d, 1),
\* pwTemp[1] is Word(d, 3); m_size and m_checksum likewise).
Word(b, i) == b[i] + 256 * b[i + 1]

SetWord(b, i, w) == [b EXCEPT ![i] = Lo(w), ![i + 1] = Hi(w)]

Payload(b) == SubSeq(b, HeaderSize + 1, Len(b))

\* One bit of a byte inverted.
FlipBit(b, k) == IF (b \div (2 ^ k)) % 2 = 1 THEN b - 2 ^ k ELSE b + 2 ^ k

(***************************************************************************)
(* fletcher16                                                              *)
(***************************************************************************)
RECURSIVE FletcherLoopMod256(_, _, _, _, _)
FletcherLoopMod256(data, count, index, sum1, sum2) ==
    IF index < count
    THEN LET s1 == (sum1 + data[index + 1]) % 256
             s2 == (sum2 + s1) % 256
         IN  FletcherLoopMod256(data, count, index + 1, s1, s2)
    ELSE <<sum1, sum2>>

RECURSIVE FletcherLoop(_, _, _, _, _)
FletcherLoop(data, count, index, sum1, sum2) ==
    IF index < count
    THEN LET s1 == (sum1 + data[index + 1]) % FletcherMod
             s2 == (sum2 + s1) % FletcherMod
         IN  FletcherLoop(data, count, index + 1, s1, s2)
    ELSE <<sum1, sum2>>

fletcher16Swapped(data, count) ==
    LET s == FletcherLoop(data, count, 0, 0, 0)
    IN  (s[1] * 256 + s[2]) % 65536

fletcher16OffByOne(data, count) ==
    LET s == FletcherLoop(data, count - 1, 0, 0, 0)
    IN  (s[2] * 256 + s[1]) % 65536

fletcher16(data, count) ==
    LET s == FletcherLoop(data, count, 0, 0, 0)
    IN  (s[2] * 256 + s[1]) % 65536

(***************************************************************************)
(* The constructor.                                                        *)
(***************************************************************************)
\* T's own constructor is user code; the payload defaults are taken as zero.
DefaultPayload(n) == [i \in 1 .. (n - HeaderSize) |-> 0]

FreshRecordNoSize(n) ==
    SetWord([i \in 1 .. HeaderSize |-> 0], 3, Sentinel) \o DefaultPayload(n)

FreshRecord(n) ==
    SetWord(SetWord([i \in 1 .. HeaderSize |-> 0], 1, n % 65536), 3, Sentinel)
        \o DefaultPayload(n)

(***************************************************************************)
(* The EEPROM driver, as begin() and update() use it.  A call is a tuple:  *)
(* <<"begin", size>>, <<"read", offset>>, <<"write", offset, byte>> or     *)
(* <<"commit">>.                                                           *)
(***************************************************************************)
ErasedStorage(v) == [i \in 1 .. FlashPartitionSize |-> v]

EepromWrite(st, off, b) ==
    IF off >= 0 /\ off < Len(st) THEN [st EXCEPT ![off + 1] = b] ELSE st

\* The contents of the EEPROM after the first k calls of a sequence of calls.
RECURSIVE ApplyCalls(_, _, _)
ApplyCalls(st, calls, k) ==
    IF k = 0
    THEN st
    ELSE LET before == ApplyCalls(st, calls, k - 1)
             c == calls[k]
         IN  IF c[1] = "write" THEN EepromWrite(before, c[2], c[3]) ELSE before

Writes(calls) == {i \in DOMAIN calls : calls[i][1] = "write"}
Commits(calls) == {i \in DOMAIN calls : calls[i][1] = "commit"}

(***************************************************************************)
(* begin()                                                                 *)
(***************************************************************************)
\* The driver calls of begin(): EEPROM.begin, then one read per byte.
BeginCallsWritesSize(n) ==
    <<<<"begin", FlashPartitionSize>>>> \o [i \in 1 .. n |-> <<"read", i - 1>>]
        \o <<<<"write", 0, Lo(n)>>>>

BeginCalls(n) ==
    <<<<"begin", FlashPartitionSize>>>> \o [i \in 1 .. n |-> <<"read", i - 1>>]

\* data[] after the read loop.
BeginData(st, n) == [i \in 1 .. n |-> st[i]]

SizeMatchesNoCheck(data, n) == TRUE

SizeMatches(data, n) == Word(data, 1) = n

ChecksumMatchesNoZero(data, n) == fletcher16(data, n) = Word(data, 3)

ChecksumMatches(data, n) ==
    LET sum == Word(data, 3)
        zeroed == SetWord(data, 3, 0)
        recomputed == SetWord(zeroed, 3, fletcher16(zeroed, n))
    IN  Word(recomputed, 3) = sum

BeginRetEither(st, n) ==
    LET data == BeginData(st, n)
    IN  SizeMatches(data, n) \/ ChecksumMatches(data, n)

\* The return value of begin().
BeginRet(st, n) ==
    LET data == BeginData(st, n)
    IN  SizeMatches(data, n) /\ ChecksumMatches(data, n)

BeginMemCopiesFirst(st, m, n) == BeginData(st, n)

BeginMemPayloadOnly(st, m, n) ==
    IF BeginRet(st, n)
    THEN SubSeq(m, 1, HeaderSize) \o Payload(BeginData(st, n))
    ELSE m

\* The in-memory record after begin().
BeginMem(st, m, n) == IF BeginRet(st, n) THEN BeginData(st, n) ELSE m

(***************************************************************************)
(* update()                                                                *)
(***************************************************************************)
UpdateSumNoZero(m, n) == fletcher16(m, n)

\* The checksum update() computes: over the record with m_checksum zero.
UpdateSum(m, n) == fletcher16(SetWord(m, 3, 0), n)

UpdateMemKeepsZero(m, n) == SetWord(m, 3, 0)

\* The in-memory record after update(): m_checksum holds the new checksum.
UpdateMem(m, n) == SetWord(m, 3, UpdateSum(m, n))

\* "no changes detected": old_sum == this->m_checksum
UpdateUnchanged(m, n) == Word(m, 3) = UpdateSum(m, n)

UpdateCallsStaleSum(m, n) ==
    IF UpdateUnchanged(m, n)
    THEN <<>>
    ELSE [i \in 1 .. n |-> <<"write", i - 1, m[i]>>] \o <<<<"commit">>>>

\* The driver calls of update().
UpdateCalls(m, n) ==
    IF UpdateUnchanged(m, n)
    THEN <<>>
    ELSE LET pData == UpdateMem(m, n)
         IN  [i \in 1 .. n |-> <<"write", i - 1, pData[i]>>] \o <<<<"commit">>>>

(***************************************************************************)
(* State.                                                                  *)
(***************************************************************************)
VARIABLES
    sizeT,        \* sizeof(T) of the running firmware
    mem,          \* the byte image of the FlashSettings object
    storage,      \* the EEPROM contents
    op,           \* the last operation
    ret,          \* what the last begin() returned
    calls,        \* the driver calls the last begin() or update() made
    memKept,      \* the last operation left mem as it was
    storageKept,  \* the last operation left storage as it was
    since,        \* payload mutations since the last update(): 0, 1, or 2 for
                  \*   "more, or no update() on this object yet"
    fresh,        \* no begin() or update() has run on the object yet
    pre,          \* <<since, fresh>> as update() found them, else <<>>
    rtStage,      \* 1: update() ran on a fresh object, 2: then a second
                  \*   object of the type was constructed, 3: then begin() ran
    rtP,          \* the payload the fresh object had at that update()
    torn,         \* <<old image, new image>> of an interrupted
                  \*   update(), until the begin() after the reboot
    fault,        \* what happened to storage since the last complete write
    savedSize,    \* sizeof(T) of the last completely written record, else 0
    upd,          \* <<op, ret>> as update() found them and whether it left
                  \*   m_size and the payload as they were, else <<>>
    instBegin,    \* the build instantiates begin() (the program calls it)
    fData,        \* the byte sequence handed to fletcher16
    fRet          \* what fletcher16 returned for it, -1 before the call

objVars == <<sizeT, mem, storage, op, ret, calls, memKept, storageKept, since,
             fresh, pre, rtStage, rtP, torn, fault, savedSize, upd>>

vars == <<objVars, instBegin, fData, fRet>>

\* The record update() last wrote and committed is in storage untouched.
Intact == fault = "none" /\ savedSize = sizeT

\* The object and the partition after construction, for the record sizes given.
ObjectInit(sizes) ==
    /\ sizeT \in sizes
    /\ mem = FreshRecord(sizeT)
    /\ storage \in {ErasedStorage(0), ErasedStorage(255)}
    /\ op = "construct"
    /\ ret = FALSE
    /\ calls = <<>>
    /\ memKept = TRUE
    /\ storageKept = TRUE
    /\ since = 2
    /\ fresh = TRUE
    /\ pre = <<>>
    /\ rtStage = 0
    /\ rtP = <<>>
    /\ torn = <<>>
    /\ fault = "none"
    /\ savedSize = 0
    /\ upd = <<>>

Init ==
    /\ ObjectInit(SizesOfT)
    /\ instBegin = TRUE
    /\ fData = <<>>
    /\ fRet = -1

\* FlashSettings(): a new object, after a reboot or, while no damaged record
\* is stored, a change to the firmware with the other record type.
Construct(M) ==
    /\ M = sizeT \/ fault = "none"
    /\ sizeT' = M
    /\ mem' = FreshRecord(M)
    /\ op' = "construct"
    /\ ret' = FALSE
    /\ calls' = <<>>
    /\ memKept' = TRUE
    /\ storageKept' = TRUE
    /\ since' = 2
    /\ fresh' = TRUE
    /\ pre' = <<>>
    /\ rtStage' = IF rtStage = 1 /\ M = sizeT THEN 2 ELSE 0
    /\ rtP' = IF rtStage = 1 /\ M = sizeT THEN rtP ELSE <<>>
    /\ torn' = <<>>
    /\ upd' = <<>>
    /\ UNCHANGED <<storage, fault, savedSize, instBegin, fData, fRet>>

\* The caller assigns one payload byte a different value.
Mutate(i, v) ==
    /\ i <= sizeT
    /\ v \in ByteVals(i)
    /\ v # mem[i]
    /\ mem' = [mem EXCEPT ![i] = v]
    /\ op' = "mutate"
    /\ ret' = FALSE
    /\ calls' = <<>>
    /\ memKept' = FALSE
    /\ storageKept' = TRUE
    /\ since' = IF since = 0 THEN 1 ELSE 2
    /\ pre' = <<>>
    /\ rtStage' = 0
    /\ rtP' = <<>>
    /\ torn' = <<>>
    /\ upd' = <<>>
    /\ UNCHANGED <<sizeT, storage, fresh, fault, savedSize, instBegin, fData,
                   fRet>>

Begin ==
    /\ mem' = BeginMem(storage, mem, sizeT)
    /\ ret' = BeginRet(storage, sizeT)
    /\ calls' = BeginCalls(sizeT)
    /\ storage' = ApplyCalls(storage, calls', Len(calls'))
    /\ op' = "begin"
    /\ memKept' = (mem' = mem)
    /\ storageKept' = (storage' = storage)
    /\ since' = 2
    /\ fresh' = FALSE
    /\ pre' = <<>>
    /\ rtStage' = IF rtStage = 2 THEN 3 ELSE 0
    /\ rtP' = IF rtStage = 2 THEN rtP ELSE <<>>
    /\ torn' = IF op = "powerloss" THEN torn ELSE <<>>
    /\ upd' = <<>>
    /\ UNCHANGED <<sizeT, fault, savedSize, instBegin, fData, fRet>>

Update ==
    /\ mem' = UpdateMem(mem, sizeT)
    /\ calls' = UpdateCalls(mem, sizeT)
    /\ storage' = ApplyCalls(storage, calls', Len(calls'))
    /\ op' = "update"
    /\ ret' = FALSE
    /\ memKept' = (mem' = mem)
    /\ storageKept' = (storage' = storage)
    /\ since' = 0
    /\ fresh' = FALSE
    /\ pre' = <<since, fresh>>
    /\ rtStage' = IF fresh THEN 1 ELSE 0
    /\ rtP' = IF fresh THEN Payload(mem) ELSE <<>>
    /\ torn' = <<>>
    /\ fault' = IF Commits(calls') # {} THEN "none" ELSE fault
    /\ savedSize' = IF Commits(calls') # {} THEN sizeT ELSE savedSize
    /\ upd' = <<op, ret, SetWord(mem', 3, 0) = SetWord(mem, 3, 0)>>
    /\ UNCHANGED <<sizeT, instBegin, fData, fRet>>

\* Power is lost in an update() that overwrites the intact stored record,
\* after k of its writes reached the EEPROM; the device reboots and constructs
\* its object anew.
PowerLoss(k) ==
    /\ k < sizeT
    /\ Intact
    /\ ~UpdateUnchanged(mem, sizeT)
    /\ storage' = ApplyCalls(storage, UpdateCalls(mem, sizeT), k)
    /\ mem' = FreshRecord(sizeT)
    /\ op' = "powerloss"
    /\ ret' = FALSE
    /\ calls' = <<>>
    /\ memKept' = FALSE
    /\ storageKept' = (storage' = storage)
    /\ since' = 2
    /\ fresh' = TRUE
    /\ pre' = <<>>
    /\ rtStage' = 0
    /\ rtP' = <<>>
    /\ torn' = <<BeginData(storage, sizeT), UpdateMem(mem, sizeT)>>
    /\ fault' = IF storage' = storage THEN fault ELSE "torn"
    /\ upd' = <<>>
    /\ UNCHANGED <<sizeT, savedSize, instBegin, fData, fRet>>

\* The device is switched off after a save; while it is off, one bit of the
\* stored record flips; the device then boots and constructs its object.
BitRot(i, k) ==
    /\ i <= sizeT
    /\ op = "update"
    /\ Commits(calls) # {}
    /\ storage' = [storage EXCEPT ![i] = FlipBit(storage[i], k)]
    /\ mem' = FreshRecord(sizeT)
    /\ op' = "bitrot"
    /\ ret' = FALSE
    /\ calls' = <<>>
    /\ memKept' = FALSE
    /\ storageKept' = FALSE
    /\ since' = 2
    /\ fresh' = TRUE
    /\ pre' = <<>>
    /\ rtStage' = 0
    /\ rtP' = <<>>
    /\ torn' = <<>>
    /\ fault' = IF i <= 2 THEN "size" ELSE IF i <= HeaderSize THEN "checksum" ELSE "payload"
    /\ upd' = <<>>
    /\ UNCHANGED <<sizeT, savedSize, instBegin, fData, fRet>>

Next ==
    \/ \E M \in SizesOfT : Construct(M)
    \/ \E i \in (HeaderSize + 1) .. FlashPartitionSize, v \in CallerBytes :
           Mutate(i, v)
    \/ Begin
    \/ Update
    \/ \E k \in 0 .. (FlashPartitionSize - 1) : PowerLoss(k)
    \/ \E i \in 1 .. FlashPartitionSize, k \in 0 .. 7 : BitRot(i, k)

Spec == Init /\ [][Next]_vars

(***************************************************************************)
(* fletcher16 on its own: called once on a byte sequence.                  *)
(***************************************************************************)
FletcherInit ==
    /\ ObjectInit({HeaderSize})
    /\ instBegin = TRUE
    /\ fData \in UNION {[1 .. l -> FletcherBytes] : l \in 0 .. MaxLen}
    /\ fRet = -1

FletcherCall ==
    /\ fRet = -1
    /\ fRet' = fletcher16(fData, Len(fData))
    /\ UNCHANGED <<objVars, instBegin, fData>>

FletcherNext == FletcherCall

FletcherSpec == FletcherInit /\ [][FletcherNext]_vars

(***************************************************************************)
(* Builds at the capacity boundary.  The static_assert on sizeof(T) is in  *)
(* the body of begin(), so it is evaluated in the builds that instantiate  *)
(* begin(); a build that never calls begin() compiles whatever sizeof(T).  *)
(***************************************************************************)
StaticAssertHolds(n) == n <= FlashPartitionSize

CapInit ==
    /\ ObjectInit(SizesOfT \cup {FlashPartitionSize + 1})
    /\ instBegin \in BOOLEAN
    /\ instBegin => StaticAssertHolds(sizeT)
    /\ fData = <<>>
    /\ fRet = -1

CapBegin == instBegin /\ Begin

CapNext ==
    \/ \E i \in (HeaderSize + 1) .. (FlashPartitionSize + 1), v \in CallerBytes :
           Mutate(i, v)
    \/ CapBegin
    \/ Update

CapSpec == CapInit /\ [][CapNext]_vars

(***************************************************************************)
(* Properties.                                                             *)
(***************************************************************************)
Erased(st) == \/ \A i \in DOMAIN st : st[i] = 0
              \/ \A i \in DOMAIN st : st[i] = 255

\* update() wrote the whole record, each offset once, and committed once.
WroteRecord ==
    /\ Cardinality(Writes(calls)) = sizeT
    /\ {calls[i][2] : i \in Writes(calls)} = 0 .. (sizeT - 1)
    /\ Cardinality(Commits(calls)) = 1

\* C1: update() on a fresh object with payload P, then begin() on a second
\* fresh object of the type: begin() returns true and the payload is P.
C1_SaveLoadRoundTrip == rtStage = 3 => ret /\ Payload(mem) = rtP

\* C2: an update() that follows an update() with exactly one payload byte
\* changed in between writes the record and commits.
C2_MutationTriggersWrite == op = "update" /\ pre[1] = 1 => WroteRecord

\* C3: an update() that directly follows an update() makes no driver call
\* and leaves storage as it was.
C3_WriteGate ==
    op = "update" /\ pre[1] = 0 =>
        Writes(calls) = {} /\ Commits(calls) = {} /\ storageKept

C3_Witness ==
    op = "update" /\ pre[1] = 0 /\ calls = <<>> /\ Intact
        /\ Payload(mem) # DefaultPayload(sizeT)

\* C4: the first update() on a freshly constructed object writes the record
\* and commits.
C4_FirstSaveWrites == op = "update" /\ pre[2] => WroteRecord

\* C5: the begin() after an interrupted update() that overwrote an intact
\* record loads, if it loads anything, the old or the new record in full.
C5_PartialWriteDetected ==
    op = "begin" /\ torn # <<>> /\ ret => mem \in {torn[1], torn[2]}

\* C6: with one payload bit of the stored record flipped, begin() returns
\* false and leaves the in-memory record as it was.
C6_CorruptionDetected ==
    op = "begin" /\ fault = "payload" => ~ret /\ memKept

C6_Witness ==
    op = "begin" /\ fault = "payload" /\ ~ret
        /\ Payload(mem) # DefaultPayload(sizeT)

\* C7: begin() returns false when the stored record was saved by a firmware
\* with another record size, and whenever the stored size field differs from
\* sizeof(T).
C7_SchemaDriftDetected ==
    op = "begin"
        /\ \/ fault = "none" /\ savedSize \notin {0, sizeT}
           \/ Word(storage, 1) # sizeT
    => ~ret

C7_Witness ==
    op = "begin" /\ fault = "none" /\ savedSize \notin {0, sizeT} /\ ~ret

\* C8: on erased storage (all 0x00 or all 0xFF) begin() returns false and
\* leaves the in-memory record as constructed.
C8_FreshStorage == op = "begin" /\ Erased(storage) => ~ret /\ memKept

C8_Witness ==
    op = "begin" /\ Erased(storage) /\ storage[1] = 255 /\ ~ret
        /\ mem = FreshRecord(sizeT)

\* C9: begin() issues no write and no commit and leaves storage as it was.
C9_BeginNeverWrites ==
    op = "begin" => Writes(calls) = {} /\ Commits(calls) = {} /\ storageKept

C9_Witness == op = "begin" /\ ret /\ ~memKept /\ Intact

C13_SizeFieldInvariant == Word(mem, 1) = sizeT

C13_Witness ==
    op = "begin" /\ ret /\ Word(mem, 3) # Sentinel /\ Word(mem, 1) = sizeT

\* C14: begin() returns true exactly when the stored size word is sizeof(T)
\* and the stored checksum word is fletcher16 of the stored record with bytes
\* [2,4) zero; it then leaves the whole stored record in memory.
C14_BeginAccepts ==
    op = "begin" =>
        LET img == [i \in 1 .. sizeT |-> storage[i]]
            masked == [img EXCEPT ![3] = 0, ![4] = 0]
        IN  /\ ret <=> /\ img[1] + 256 * img[2] = sizeT
                       /\ img[3] + 256 * img[4] = fletcher16(masked, sizeT)
            /\ ret => mem = img

C14_Witness ==
    op = "begin" /\ ret /\ mem = BeginData(storage, sizeT)
        /\ Payload(mem) # DefaultPayload(sizeT)

\* C15: after update(), in either branch, m_checksum is fletcher16 of the
\* record with m_checksum zero, and m_size and the payload are as before.
C15_UpdateChecksumInPlace ==
    op = "update" =>
        /\ Word(mem, 3) = fletcher16([mem EXCEPT ![3] = 0, ![4] = 0], sizeT)
        /\ upd[3]

C15_Witness ==
    op = "update" /\ ~memKept /\ upd[3] /\ Payload(mem) # DefaultPayload(sizeT)

\* C17: after an update() that wrote and committed, storage holds the
\* in-memory record byte for byte and begin() accepts it; a begin() that
\* finds that record untouched returns true.
C17_SavedRecordLoads ==
    /\ op = "update" /\ Commits(calls) # {} =>
           [i \in 1 .. sizeT |-> storage[i]] = mem /\ BeginRet(storage, sizeT)
    /\ op = "begin" /\ Intact => ret

C17_Witness ==
    op = "begin" /\ Intact /\ ret /\ fault = "none"
        /\ Payload(mem) # DefaultPayload(sizeT)

\* C18: an update() that directly follows a begin() that returned true makes
\* no write and no commit.
C18_UpdateAfterLoad ==
    op = "update" /\ upd[1] = "begin" /\ upd[2] =>
        Writes(calls) = {} /\ Commits(calls) = {} /\ storageKept

C18_Witness ==
    op = "update" /\ upd[1] = "begin" /\ upd[2] /\ calls = <<>>
        /\ Payload(mem) # DefaultPayload(sizeT)

(***************************************************************************)
(* Properties of CapSpec.                                                  *)
(***************************************************************************)
\* C11: on an object whose record is larger than the partition no begin()
\* and no update() is ever executed, so no driver call is made.
C11_CapacityBoundary ==
    sizeT > FlashPartitionSize => op \notin {"begin", "update"} /\ calls = <<>>

\* C16: an update() that detects a change writes each offset 0 .. sizeof(T)-1
\* once with the in-memory byte and commits once, after the last write; one
\* that detects none makes no call.  Every offset begin() and update() read
\* or write is below sizeof(T) and below the partition size.
C16_WriteProtocol ==
    /\ op = "update" =>
           IF memKept
           THEN calls = <<>>
           ELSE /\ WroteRecord
                /\ \A i \in Writes(calls) : calls[i][3] = mem[calls[i][2] + 1]
                /\ \A c \in Commits(calls) : \A w \in Writes(calls) : w < c
    /\ op \in {"begin", "update"} =>
           \A i \in DOMAIN calls :
               calls[i][1] \in {"read", "write"} =>
                   /\ calls[i][2] \in 0 .. (sizeT - 1)
                   /\ calls[i][2] < FlashPartitionSize

(***************************************************************************)
(* Properties of FletcherSpec.                                             *)
(***************************************************************************)
RECURSIVE WeightedSum(_, _, _)
WeightedSum(d, i, w) ==
    IF i > Len(d) THEN 0 ELSE w * d[i] + WeightedSum(d, i + 1, w - 1)

RECURSIVE PlainSum(_, _)
PlainSum(d, i) == IF i > Len(d) THEN 0 ELSE d[i] + PlainSum(d, i + 1)

\* Fletcher-16 in closed form: sum1 is the sum of the bytes, sum2 the sum of
\* the bytes weighted by their distance from the end, both modulo 255.
Fletcher16Reference(d) ==
    (WeightedSum(d, 1, Len(d)) % 255) * 256 + (PlainSum(d, 1) % 255)

\* C12: fletcher16 returns the reference Fletcher-16 of every sequence, 0x0403
\* for <<1, 2>> and 0 for the empty sequence.
C12_Fletcher16IsReference ==
    fRet # -1 =>
        /\ fRet = Fletcher16Reference(fData)
        /\ fData = <<1, 2>> => fRet = 1027
        /\ fData = <<>> => fRet = 0

C12_Witness == fData = <<1, 2>> /\ fRet = 1027

\* C19: after every step of the loop both sums are in 0 .. 254, no
\* intermediate value exceeds 254 + 255, and neither byte of the returned
\* checksum is 0xFF.
C19_SumsStayBelow255 ==
    /\ \A k \in 0 .. Len(fData) :
           LET s == FletcherLoop(fData, k, 0, 0, 0)
           IN  /\ s[1] \in 0 .. 254
               /\ s[2] \in 0 .. 254
               /\ k < Len(fData) =>
                      /\ s[1] + fData[k + 1] <= 254 + 255
                      /\ s[2] + ((s[1] + fData[k + 1]) % FletcherMod) <= 254 + 255
    /\ fRet # -1 => Lo(fRet) \in 0 .. 254 /\ Hi(fRet) \in 0 .. 254

C19_Witness ==
    fRet # -1 /\ Len(fData) = MaxLen /\ Lo(fRet) = 254 /\ Hi(fRet) = 254

=============================================================================
